---- MODULE Spec2Model ----
(***************************************************************************)
(* Model of src/basic/new_ecs/switch.rs: the union-find NodeMerge          *)
(* (new, find, union, get_node_mapping) and the ECS system                 *)
(* process_switch_state.                                                   *)
(*                                                                         *)
(* HashMap<u64,u64> values are TLA+ functions; the structure NodeMerge is  *)
(* the pair of variables parent, rank.  A second merger (parent2, rank2)   *)
(* exists for the two-instance properties.                                 *)
(*                                                                         *)
(* Specifications:                                                         *)
(*   Spec        one merger, every call recorded in last                   *)
(*   SpecCore    one merger, union and find only                           *)
(*   SpecPair    two mergers over the same node set                        *)
(*   SpecDeep    one merger of NumDeep nodes, trees of height 3            *)
(*   SpecFlush   unions, then find on every node, then get_node_mapping    *)
(*   SpecSwitch  one run of process_switch_state over a batch              *)
(***************************************************************************)
EXTENDS Integers, Sequences, FiniteSets, TLC

\* parent, rank     the two maps of a NodeMerge
\* parent2, rank2   a second NodeMerge over the same node set
\* pairs            the pairs handed to union so far, kept closed under
\*                  reflexivity, symmetry and transitivity
\* last             the last call on the merger, with its arguments and result;
\*                  panic tells that the call panicked (the program is gone)
\* found            the nodes find was called on since the last union
\* switches         the rows (Switch, SwitchState) the query yields, by entity
\* status           "idle" | "ready" | "done" | "panicked" of process_switch_state
\* cmds             the AdmittanceBranch inserts applied to the world
\* node_mapping     the NodeMapping resource, None while not published
VARIABLES parent, rank, parent2, rank2, pairs, last, found, switches, status, cmds, node_mapping

vars == <<parent, rank, parent2, rank2, pairs, last, found, switches, status, cmds, node_mapping>>

ufVars == <<parent, rank, parent2, rank2, pairs, last, found>>

ecsVars == <<switches, status, cmds, node_mapping>>

\* ---- bounds ------------------------------------------------------------
\* number of node identifiers handed to NodeMerge::new (identifiers 1..NumNodes)
NumNodes == 4

\* largest starting_idx passed to get_node_mapping
MaxStart == 1

\* largest number of Switch entities in one batch
MaxSwitches == 2

\* number of node identifiers of the merger on which trees of height 3 are built
NumDeep == 8

Nodes == 1..NumNodes

\* an identifier that was not in the slice passed to NodeMerge::new
Unregistered == NumNodes + 1

\* the identifiers callers pass to find and union
Ids == Nodes \cup {Unregistered}

StartIdxs == 0..MaxStart

\* Option<T> and an optional resource: the empty sequence or a one-element sequence
None == <<>>

Some(x) == <<x>>

is_some(o) == o # <<>>

unwrap(o) == o[1]

\* ---- NodeMerge ---------------------------------------------------------
\* NodeMerge::new: every node is its own parent, rank 0
new(nodes) == [parent |-> [n \in nodes |-> n], rank |-> [n \in nodes |-> 0]]

\* first loop of find: chase parent pointers up to the self-parented node
RECURSIVE find_root(_, _)
find_root(p, node) == IF p[node] = node THEN node ELSE find_root(p, p[node])

\* plausible slip: the second loop is missing, no path is compressed
find_compress_none(p, current, root) == p

\* plausible slip: only the queried node is repointed, not the rest of the path
find_compress_first_only(p, current, root) ==
    IF p[current] = root THEN p ELSE [p EXCEPT ![current] = root]

\* second loop of find: repoint every visited node to root
RECURSIVE find_compress(_, _, _)
find_compress(p, current, root) ==
    IF p[current] = root THEN p
    ELSE find_compress([p EXCEPT ![current] = root], p[current], root)

\* plausible slip: an unknown key is entered as its own root (entry().or_insert)
find_default_root(p, node) ==
    IF node \notin DOMAIN p
    THEN [panic |-> FALSE, root |-> node, parent |-> p @@ (node :> node)]
    ELSE LET root == find_root(p, node)
         IN [panic |-> FALSE, root |-> root, parent |-> find_compress(p, node, root)]

\* NodeMerge::find: the returned root and the parent map it leaves behind.
\* self.parent[&root] panics on a key that is not in the map.
find(p, node) ==
    IF node \notin DOMAIN p
    THEN [panic |-> TRUE, root |-> node, parent |-> p]
    ELSE LET root == find_root(p, node)
         IN [panic |-> FALSE, root |-> root, parent |-> find_compress(p, node, root)]

\* plausible slip: the second argument itself, not its root, is re-parented
union_attach_node(p, r, node1, node2) ==
    LET f1 == find(p, node1)
        f2 == find(f1.parent, node2)
        root1 == f1.root
        root2 == f2.root
        p2 == f2.parent
    IN IF f1.panic THEN [parent |-> p, rank |-> r, merged |-> FALSE, panic |-> TRUE]
       ELSE IF f2.panic THEN [parent |-> f1.parent, rank |-> r, merged |-> FALSE, panic |-> TRUE]
       ELSE IF root1 # root2
       THEN IF r[root1] < r[root2]
            THEN [parent |-> [p2 EXCEPT ![node1] = root2], rank |-> r, merged |-> TRUE, panic |-> FALSE]
            ELSE [parent |-> [p2 EXCEPT ![node2] = root1],
                  rank |-> IF r[root1] = r[root2] THEN [r EXCEPT ![root1] = @ + 1] ELSE r,
                  merged |-> TRUE, panic |-> FALSE]
       ELSE [parent |-> p2, rank |-> r, merged |-> FALSE, panic |-> FALSE]

\* plausible slip: the lower-rank first root is left alone (merge dropped)
union_drop_low(p, r, node1, node2) ==
    LET f1 == find(p, node1)
        f2 == find(f1.parent, node2)
        root1 == f1.root
        root2 == f2.root
        p2 == f2.parent
    IN IF f1.panic THEN [parent |-> p, rank |-> r, merged |-> FALSE, panic |-> TRUE]
       ELSE IF f2.panic THEN [parent |-> f1.parent, rank |-> r, merged |-> FALSE, panic |-> TRUE]
       ELSE IF root1 # root2
       THEN IF r[root1] < r[root2]
            THEN [parent |-> p2, rank |-> r, merged |-> TRUE, panic |-> FALSE]
            ELSE [parent |-> [p2 EXCEPT ![root2] = root1],
                  rank |-> IF r[root1] = r[root2] THEN [r EXCEPT ![root1] = @ + 1] ELSE r,
                  merged |-> TRUE, panic |-> FALSE]
       ELSE [parent |-> p2, rank |-> r, merged |-> FALSE, panic |-> FALSE]

\* plausible slip: the rank tie is tested outside the root1 != root2 guard
union_rank_unguarded(p, r, node1, node2) ==
    LET f1 == find(p, node1)
        f2 == find(f1.parent, node2)
        root1 == f1.root
        root2 == f2.root
        p2 == f2.parent
    IN IF f1.panic THEN [parent |-> p, rank |-> r, merged |-> FALSE, panic |-> TRUE]
       ELSE IF f2.panic THEN [parent |-> f1.parent, rank |-> r, merged |-> FALSE, panic |-> TRUE]
       ELSE IF root1 # root2
       THEN IF r[root1] < r[root2]
            THEN [parent |-> [p2 EXCEPT ![root1] = root2], rank |-> r, merged |-> TRUE, panic |-> FALSE]
            ELSE [parent |-> [p2 EXCEPT ![root2] = root1],
                  rank |-> IF r[root1] = r[root2] THEN [r EXCEPT ![root1] = @ + 1] ELSE r,
                  merged |-> TRUE, panic |-> FALSE]
       ELSE [parent |-> p2, rank |-> [r EXCEPT ![root1] = @ + 1], merged |-> FALSE, panic |-> FALSE]

\* plausible slip: on a rank tie the rank of the attached root is incremented
union_rank_wrong_root(p, r, node1, node2) ==
    LET f1 == find(p, node1)
        f2 == find(f1.parent, node2)
        root1 == f1.root
        root2 == f2.root
        p2 == f2.parent
    IN IF f1.panic THEN [parent |-> p, rank |-> r, merged |-> FALSE, panic |-> TRUE]
       ELSE IF f2.panic THEN [parent |-> f1.parent, rank |-> r, merged |-> FALSE, panic |-> TRUE]
       ELSE IF root1 # root2
       THEN IF r[root1] < r[root2]
            THEN [parent |-> [p2 EXCEPT ![root1] = root2], rank |-> r, merged |-> TRUE, panic |-> FALSE]
            ELSE [parent |-> [p2 EXCEPT ![root2] = root1],
                  rank |-> IF r[root1] = r[root2] THEN [r EXCEPT ![root2] = @ + 1] ELSE r,
                  merged |-> TRUE, panic |-> FALSE]
       ELSE [parent |-> p2, rank |-> r, merged |-> FALSE, panic |-> FALSE]

\* plausible slip: the ranks are not compared, root2 always goes under root1
union_no_rank_compare(p, r, node1, node2) ==
    LET f1 == find(p, node1)
        f2 == find(f1.parent, node2)
        root1 == f1.root
        root2 == f2.root
        p2 == f2.parent
    IN IF f1.panic THEN [parent |-> p, rank |-> r, merged |-> FALSE, panic |-> TRUE]
       ELSE IF f2.panic THEN [parent |-> f1.parent, rank |-> r, merged |-> FALSE, panic |-> TRUE]
       ELSE IF root1 # root2
       THEN [parent |-> [p2 EXCEPT ![root2] = root1],
             rank |-> IF r[root1] = r[root2] THEN [r EXCEPT ![root1] = @ + 1] ELSE r,
             merged |-> TRUE, panic |-> FALSE]
       ELSE [parent |-> p2, rank |-> r, merged |-> FALSE, panic |-> FALSE]

\* plausible slip: node1 is put under node2 without looking for the roots
union_no_find(p, r, node1, node2) ==
    IF node1 \notin DOMAIN p \/ node2 \notin DOMAIN p
    THEN [parent |-> p, rank |-> r, merged |-> FALSE, panic |-> TRUE]
    ELSE IF node1 # node2
    THEN [parent |-> [p EXCEPT ![node1] = node2], rank |-> r, merged |-> TRUE, panic |-> FALSE]
    ELSE [parent |-> p, rank |-> r, merged |-> FALSE, panic |-> FALSE]

\* NodeMerge::union: both finds (with their compression), then union by rank.
\* merged records which branch of `if root1 != root2` was taken.
union(p, r, node1, node2) ==
    LET f1 == find(p, node1)
        f2 == find(f1.parent, node2)
        root1 == f1.root
        root2 == f2.root
        p2 == f2.parent
    IN IF f1.panic THEN [parent |-> p, rank |-> r, merged |-> FALSE, panic |-> TRUE]
       ELSE IF f2.panic THEN [parent |-> f1.parent, rank |-> r, merged |-> FALSE, panic |-> TRUE]
       ELSE IF root1 # root2
       THEN IF r[root1] < r[root2]
            THEN [parent |-> [p2 EXCEPT ![root1] = root2], rank |-> r, merged |-> TRUE, panic |-> FALSE]
            ELSE [parent |-> [p2 EXCEPT ![root2] = root1],
                  rank |-> IF r[root1] = r[root2] THEN [r EXCEPT ![root1] = @ + 1] ELSE r,
                  merged |-> TRUE, panic |-> FALSE]
       ELSE [parent |-> p2, rank |-> r, merged |-> FALSE, panic |-> FALSE]

\* nodes.sort(): the keys of parent in ascending order
RECURSIVE sorted_keys(_)
sorted_keys(S) ==
    IF S = {} THEN <<>>
    ELSE LET m == CHOOSE x \in S : \A y \in S : x <= y
         IN <<m>> \o sorted_keys(S \ {m})

\* plausible slip: new_node_id is not advanced after a fresh root
RECURSIVE mapping_loop_no_increment(_, _, _, _, _, _)
mapping_loop_no_increment(p, nodes, i, root_to_new_id, node_mapping_acc, new_node_id) ==
    IF i > Len(nodes) THEN node_mapping_acc
    ELSE LET node == nodes[i]
             root == p[node]
             fresh == root \notin DOMAIN root_to_new_id
             r2n == IF fresh THEN root_to_new_id @@ (root :> new_node_id) ELSE root_to_new_id
         IN mapping_loop_no_increment(p, nodes, i + 1, r2n,
                                      node_mapping_acc @@ (node :> r2n[root]), new_node_id)

\* the for loop of get_node_mapping over nodes[i..]; root is parent[node]
RECURSIVE mapping_loop(_, _, _, _, _, _)
mapping_loop(p, nodes, i, root_to_new_id, node_mapping_acc, new_node_id) ==
    IF i > Len(nodes) THEN node_mapping_acc
    ELSE LET node == nodes[i]
             root == p[node]
             fresh == root \notin DOMAIN root_to_new_id
             r2n == IF fresh THEN root_to_new_id @@ (root :> new_node_id) ELSE root_to_new_id
             nid == IF fresh THEN new_node_id + 1 ELSE new_node_id
         IN mapping_loop(p, nodes, i + 1, r2n, node_mapping_acc @@ (node :> r2n[root]), nid)

\* NodeMerge::get_node_mapping
get_node_mapping(p, starting_idx) ==
    mapping_loop(p, sorted_keys(DOMAIN p), 1, <<>>, <<>>, starting_idx)

\* CooMatrix::new(nrows, ncols) followed by push(i, j, v); push panics when
\* (i, j) is outside the matrix
coo_push(mat, i, j, v) ==
    IF i < mat.nrows /\ j < mat.ncols
    THEN [panic |-> FALSE, mat |-> [mat EXCEPT !.entries = Append(@, <<i, j, v>>)]]
    ELSE [panic |-> TRUE, mat |-> mat]

\* build_aggregation_matrix: one push of (0, 0, 1), then todo!(); no matrix
\* is ever returned
build_aggregation_matrix(nodes, mapping) ==
    LET original_node_count == Len(nodes)
        new_node_count == Cardinality({mapping[n] : n \in DOMAIN mapping})
        mat == [nrows |-> original_node_count, ncols |-> new_node_count, entries |-> <<>>]
        pushed == coo_push(mat, 0, 0, 1)
    IN [panic |-> TRUE, ret |-> None, mat |-> pushed.mat]

\* ---- observation helpers -------------------------------------------------
\* the equivalence classes as find observes them
Partition(p) == {{y \in DOMAIN p : find_root(p, y) = find_root(p, x)} : x \in DOMAIN p}

\* nodes reachable from S along the undirected edges (two-element or singleton sets)
RECURSIVE Reach(_, _)
Reach(edges, S) ==
    LET T == S \cup {y \in Nodes : \E e \in edges : y \in e /\ e \cap S # {}}
    IN IF T = S THEN S ELSE Reach(edges, T)

\* reflexive-symmetric-transitive closure of the edges
Related(edges, x, y) == y \in Reach(edges, {x})

\* the closure as a set of edges: every {x, y} with x related to y
Closure(edges) == UNION {{{x, y} : y \in Reach(edges, {x})} : x \in Nodes}

\* ---- union-find specification --------------------------------------------
NoOp == [op |-> "new", panic |-> FALSE]

InitECSIdle ==
    /\ switches = <<>>
    /\ status = "idle"
    /\ cmds = <<>>
    /\ node_mapping = None

Init ==
    /\ parent = new(Nodes).parent
    /\ rank = new(Nodes).rank
    /\ parent2 = new(Nodes).parent
    /\ rank2 = new(Nodes).rank
    /\ pairs = {}
    /\ last = NoOp
    /\ found = {}
    /\ InitECSIdle

UnionCall(a, b) ==
    LET u == union(parent, rank, a, b)
    IN /\ ~last.panic
       /\ parent' = u.parent
       /\ rank' = u.rank
       /\ pairs' = IF u.panic THEN pairs ELSE Closure(pairs \cup {{a, b}})
       /\ last' = [op |-> "union", node1 |-> a, node2 |-> b, merged |-> u.merged, panic |-> u.panic]
       /\ UNCHANGED <<parent2, rank2, found>>
       /\ UNCHANGED ecsVars

FindCall(x) ==
    LET f == find(parent, x)
    IN /\ ~last.panic
       /\ parent' = f.parent
       /\ last' = [op |-> "find", node |-> x, ret |-> f.root, panic |-> f.panic]
       /\ UNCHANGED <<rank, pairs, parent2, rank2, found>>
       /\ UNCHANGED ecsVars

GetNodeMappingCall(k) ==
    /\ ~last.panic
    /\ last' = [op |-> "get_node_mapping", starting_idx |-> k,
                ret |-> get_node_mapping(parent, k), panic |-> FALSE]
    /\ UNCHANGED <<parent, rank, pairs, parent2, rank2, found>>
    /\ UNCHANGED ecsVars

\* build_aggregation_matrix on the sorted node list and the mapping from offset 0
BuildAggregationMatrixCall ==
    LET nodes == sorted_keys(DOMAIN parent)
        mapping == get_node_mapping(parent, 0)
        b == build_aggregation_matrix(nodes, mapping)
    IN /\ ~last.panic
       /\ last' = [op |-> "build_aggregation_matrix", nodes |-> nodes, mapping |-> mapping,
                   ret |-> b.ret, panic |-> b.panic]
       /\ UNCHANGED <<parent, rank, pairs, parent2, rank2, found>>
       /\ UNCHANGED ecsVars

Next ==
    \/ \E a \in Ids, b \in Ids : UnionCall(a, b)
    \/ \E x \in Ids : FindCall(x)
    \/ \E k \in StartIdxs : GetNodeMappingCall(k)
    \/ BuildAggregationMatrixCall

Spec == Init /\ [][Next]_vars

\* ---- two mergers built from the same node set ------------------------------
UnionFirst(a, b) ==
    LET u == union(parent, rank, a, b)
    IN /\ parent' = u.parent
       /\ rank' = u.rank
       /\ last' = NoOp
       /\ UNCHANGED <<parent2, rank2, pairs, found>>
       /\ UNCHANGED ecsVars

UnionSecond(a, b) ==
    LET u == union(parent2, rank2, a, b)
    IN /\ parent2' = u.parent
       /\ rank2' = u.rank
       /\ last' = NoOp
       /\ UNCHANGED <<parent, rank, pairs, found>>
       /\ UNCHANGED ecsVars

GetNodeMappingBoth(k) ==
    /\ last' = [op |-> "get_node_mapping_both", starting_idx |-> k,
                ret |-> get_node_mapping(parent, k), ret2 |-> get_node_mapping(parent2, k),
                panic |-> FALSE]
    /\ UNCHANGED <<parent, rank, pairs, parent2, rank2, found>>
    /\ UNCHANGED ecsVars

NextPair ==
    \/ \E a \in Nodes, b \in Nodes : UnionFirst(a, b)
    \/ \E a \in Nodes, b \in Nodes : UnionSecond(a, b)
    \/ \E k \in StartIdxs : GetNodeMappingBoth(k)

SpecPair == Init /\ [][NextPair]_vars

\* ---- properties of NodeMerge ------------------------------------------------
SameClass(p, x, y) == find_root(p, x) = find_root(p, y)

\* C2: the map returned by get_node_mapping gives two registered nodes the
\* same new identifier if and only if they have the same root at that moment.
C2_MappingIffSameClass ==
    last.op = "get_node_mapping" =>
        \A x \in Nodes, y \in Nodes :
            (last.ret[x] = last.ret[y]) <=> SameClass(parent, x, y)

\* C3: the new identifiers returned by get_node_mapping(k) are exactly
\* k .. k + C - 1, C being the number of equivalence classes.
C3_MappingDense ==
    last.op = "get_node_mapping" =>
        {last.ret[n] : n \in Nodes} =
            last.starting_idx .. (last.starting_idx + Cardinality(Partition(parent)) - 1)

\* C4: two mergers over the same node set whose unions ended in the same
\* partition return identical maps from get_node_mapping(k).
C4_MappingDependsOnPartitionOnly ==
    (last.op = "get_node_mapping_both" /\ Partition(parent) = Partition(parent2)) =>
        last.ret = last.ret2

\* C5: after any sequence of unions, find(x) = find(y) exactly when x and y
\* are related by the reflexive-symmetric-transitive closure of the unioned
\* pairs; pairs never (transitively) unioned keep different roots.
C5_FindIffUnioned ==
    \A x \in Nodes, y \in Nodes :
        (find(parent, x).root = find(parent, y).root) <=> Related(pairs, x, y)

\* a class of three nodes built by transitive unions next to a separate class
C5_Witness ==
    /\ last.op = "union"
    /\ last.merged
    /\ \E c \in Partition(parent) : Cardinality(c) >= 3
    /\ Cardinality(Partition(parent)) >= 2

\* C6: union(a,b) then union(b,c) yields the same partition (as find
\* observes it) as union(b,c) then union(a,b), from any reachable state.
C6_UnionOrderIndependent ==
    \A a \in Nodes, b \in Nodes, c \in Nodes :
        LET ab == union(parent, rank, a, b)
            ab_bc == union(ab.parent, ab.rank, b, c)
            bc == union(parent, rank, b, c)
            bc_ab == union(bc.parent, bc.rank, a, b)
        IN Partition(ab_bc.parent) = Partition(bc_ab.parent)

\* after some union, three nodes of different classes for which the two
\* orders leave different parent maps behind
C6_Witness ==
    /\ last.op = "union"
    /\ \E a \in Nodes, b \in Nodes, c \in Nodes :
        LET ab == union(parent, rank, a, b)
            ab_bc == union(ab.parent, ab.rank, b, c)
            bc == union(parent, rank, b, c)
            bc_ab == union(bc.parent, bc.rank, a, b)
        IN /\ ~SameClass(parent, a, b)
           /\ ~SameClass(parent, b, c)
           /\ ~SameClass(parent, a, c)
           /\ ab_bc.parent # bc_ab.parent

\* C7: union(a,b) on two nodes already in the same class (a = b included)
\* changes neither the partition nor any rank entry.
C7_UnionIdempotent ==
    \A a \in Nodes, b \in Nodes :
        SameClass(parent, a, b) =>
            LET u == union(parent, rank, a, b)
            IN /\ u.rank = rank
               /\ Partition(u.parent) = Partition(parent)
               /\ ~u.merged

\* a union of two distinct nodes that found equal roots
C7_Witness ==
    /\ last.op = "union"
    /\ ~last.merged
    /\ last.node1 # last.node2
\* ---- process_switch_state ----------------------------------------------------
\* the variants of SwitchType matched by process_switch_state
SwitchTypes == {"SwitchBusLine", "SwitchBusTransformer", "SwitchTwoBuses",
                "SwitchBusTransformer3w", "Unknown"}

\* impedances (ohm) carried by the switches of a batch
ZVals == {0, 2, 5}

\* the buses the switches of a batch start from; each switch joins bus and bus + 1
SwitchBuses == {1, 2}

\* one (Entity, &Switch, &SwitchState) row of the query; entities are 1..Len
SwitchRows ==
    {r \in [bus : SwitchBuses, element : Nodes, et : SwitchTypes, z_ohm : ZVals, closed : BOOLEAN] :
        r.element = r.bus + 1}

\* the batches of n switches
Batches(n) == [1..n -> SwitchRows]

\* net.bus[b].vn_kv, the nominal voltage of bus b
vn_kv(b) == 10 + b

\* the AdmittanceBranch inserted on entity
AdmittanceBranch(entity, re, node1, node2, v_base) ==
    [entity |-> entity, y |-> [re |-> re, im |-> 0], port |-> <<node1, node2>>, v_base |-> v_base]

\* plausible slip: the SwitchState is not consulted
visit_switch_ignore_state(entity, switch) ==
    IF switch.et \in {"SwitchBusLine", "SwitchBusTransformer"}
    THEN [panic |-> TRUE, cmds |-> <<>>]
    ELSE IF switch.et = "SwitchTwoBuses"
    THEN LET node1 == switch.bus
             node2 == switch.element
         IN IF switch.z_ohm = 0
            THEN [panic |-> FALSE,
                  cmds |-> <<AdmittanceBranch(entity, 1000000, node1, node2, vn_kv(switch.bus))>>]
            ELSE [panic |-> FALSE,
                  cmds |-> <<AdmittanceBranch(entity, switch.z_ohm, node1, node2, vn_kv(switch.bus))>>]
    ELSE [panic |-> FALSE, cmds |-> <<>>]

\* the body of the for_each closure for one row: the match on switch.et.
\* todo!() panics; the other arms return the commands they queue.
visit_switch(entity, switch) ==
    IF switch.et \in {"SwitchBusLine", "SwitchBusTransformer"}
    THEN [panic |-> TRUE, cmds |-> <<>>]
    ELSE IF switch.et = "SwitchTwoBuses"
    THEN LET node1 == switch.bus
             node2 == switch.element
         IN IF switch.closed
            THEN IF switch.z_ohm = 0
                 THEN [panic |-> FALSE,
                       cmds |-> <<AdmittanceBranch(entity, 1000000, node1, node2, vn_kv(switch.bus))>>]
                 ELSE [panic |-> FALSE,
                       cmds |-> <<AdmittanceBranch(entity, switch.z_ohm, node1, node2, vn_kv(switch.bus))>>]
            ELSE [panic |-> FALSE, cmds |-> <<>>]
    ELSE [panic |-> FALSE, cmds |-> <<>>]

\* q.iter().for_each over rows i..Len(q); a panic ends the iteration
RECURSIVE for_each(_, _, _)
for_each(q, i, queued) ==
    IF i > Len(q) THEN [panic |-> FALSE, cmds |-> queued]
    ELSE LET v == visit_switch(i, q[i])
         IN IF v.panic THEN [panic |-> TRUE, cmds |-> queued]
            ELSE for_each(q, i + 1, queued \o v.cmds)

\* process_switch_state: what the run leaves in the world.  A panic unwinds
\* before the command queue is applied, so nothing is attached or published.
process_switch_state(nodes, q, published) ==
    LET union_find == IF Len(q) > 0 THEN Some(new(nodes)) ELSE None
        run == for_each(q, 1, <<>>)
    IN IF run.panic
       THEN [status |-> "panicked", cmds |-> <<>>, node_mapping |-> published]
       ELSE [status |-> "done",
             cmds |-> run.cmds,
             node_mapping |-> IF is_some(union_find)
                              THEN Some(get_node_mapping(unwrap(union_find).parent, 0))
                              ELSE published]

InitSwitch ==
    /\ parent = new(Nodes).parent
    /\ rank = new(Nodes).rank
    /\ parent2 = new(Nodes).parent
    /\ rank2 = new(Nodes).rank
    /\ pairs = {}
    /\ last = NoOp
    /\ found = {}
    /\ \E n \in 0..MaxSwitches : switches \in Batches(n)
    /\ status = "ready"
    /\ cmds = <<>>
    /\ node_mapping = None

ProcessSwitchState ==
    /\ status = "ready"
    /\ LET out == process_switch_state(Nodes, switches, node_mapping)
       IN /\ status' = out.status
          /\ cmds' = out.cmds
          /\ node_mapping' = out.node_mapping
    /\ UNCHANGED switches
    /\ UNCHANGED ufVars

NextSwitch == ProcessSwitchState

SpecSwitch == InitSwitch /\ [][NextSwitch]_vars

\* ---- properties of process_switch_state ---------------------------------------
Entities == 1..Len(switches)

Finished == status \in {"done", "panicked"}

\* the branch descriptors attached to entity e
BranchesOf(e) == {i \in 1..Len(cmds) : cmds[i].entity = e}

\* endpoints of the closed zero-impedance TwoBuses switches of q, except row skip
ZeroEdges(q, skip) ==
    {{q[i].bus, q[i].element} : i \in {j \in 1..Len(q) :
        j # skip /\ q[j].et = "SwitchTwoBuses" /\ q[j].closed /\ q[j].z_ohm = 0}}

\* C1: after a run over a batch with at least one switch, the published
\* NodeMapping gives two known nodes the same identifier if and only if a
\* chain of closed zero-impedance TwoBuses switches connects them.
C1_MappingReflectsMerges ==
    (Finished /\ Len(switches) > 0 /\ is_some(node_mapping)) =>
        \A x \in Nodes, y \in Nodes :
             (unwrap(node_mapping)[x] = unwrap(node_mapping)[y]) <=> Related(ZeroEdges(switches, 0), x, y)

\* C8: every closed TwoBuses switch with z_ohm > 0 leaves its endpoints
\* unmerged in the published mapping (unless other switches merge them) and
\* has exactly one branch descriptor on its entity, with port (bus, element).
C8_NonzeroSwitchBranch ==
    Finished =>
        \A e \in Entities :
            (switches[e].et = "SwitchTwoBuses" /\ switches[e].closed /\ switches[e].z_ohm > 0) =>
                /\ (is_some(node_mapping)
                     /\ unwrap(node_mapping)[switches[e].bus] = unwrap(node_mapping)[switches[e].element]) =>
                       Related(ZeroEdges(switches, e), switches[e].bus, switches[e].element)
                /\ Cardinality(BranchesOf(e)) = 1
                /\ \A i \in BranchesOf(e) : cmds[i].port = <<switches[e].bus, switches[e].element>>

\* C9: the admittance of the branch descriptor of a closed TwoBuses switch
\* with z_ohm > 0 is the reciprocal of the impedance: y * z_ohm = 1.
C9_AdmittanceIsReciprocal ==
    \A e \in Entities :
        (switches[e].et = "SwitchTwoBuses" /\ switches[e].closed /\ switches[e].z_ohm > 0) =>
            \A i \in BranchesOf(e) :
                cmds[i].y.re * switches[e].z_ohm = 1 /\ cmds[i].y.im = 0

\* C10: an open TwoBuses switch, whatever its z_ohm, gets no branch
\* descriptor, causes no merge of its endpoints, and the outputs of the run
\* are those of the same batch with any other impedance on that switch.
C10_OpenSwitchNoEffect ==
    Finished =>
        \A e \in Entities :
            (switches[e].et = "SwitchTwoBuses" /\ ~switches[e].closed) =>
                /\ BranchesOf(e) = {}
                /\ (is_some(node_mapping)
                     /\ unwrap(node_mapping)[switches[e].bus] = unwrap(node_mapping)[switches[e].element]) =>
                       Related(ZeroEdges(switches, e), switches[e].bus, switches[e].element)
                /\ \A z \in ZVals :
                     LET other == process_switch_state(Nodes,
                                      [switches EXCEPT ![e].z_ohm = z], None)
                     IN /\ other.status = status
                        /\ other.cmds = cmds
                        /\ other.node_mapping = node_mapping

\* a finished run over an open TwoBuses switch next to a closed one that got
\* its branch descriptor
C10_Witness ==
    /\ status = "done"
    /\ \E e \in Entities, f \in Entities :
        /\ switches[e].et = "SwitchTwoBuses"
        /\ ~switches[e].closed
        /\ switches[e].z_ohm > 0
        /\ switches[f].closed
        /\ BranchesOf(f) # {}

\* the variants the match of process_switch_state does not model
Unsupported == {"SwitchBusLine", "SwitchBusTransformer", "SwitchBusTransformer3w", "Unknown"}

\* C11: a switch of an unsupported variant, in any state, never aborts the
\* run: the run completes, the other switches of the batch get what the
\* policy table gives them, and the node mapping is published.
C11_UnsupportedNeverAborts ==
    (Finished /\ \E e \in Entities : switches[e].et \in Unsupported) =>
        /\ status = "done"
        /\ is_some(node_mapping)
        /\ \A f \in Entities :
             switches[f].et = "SwitchTwoBuses" =>
                 /\ (switches[f].closed /\ switches[f].z_ohm > 0) => Cardinality(BranchesOf(f)) = 1
                 /\ ~switches[f].closed => BranchesOf(f) = {}

\* C12: a NodeMapping (offset 0) is published if and only if the batch has
\* at least one switch; with switches but none closed with zero impedance
\* the mapping covers every known node and gives each its own identifier.
C12_PublishedIffSwitches ==
    Finished =>
        /\ is_some(node_mapping) <=> Len(switches) > 0
        /\ (Len(switches) > 0 /\ ZeroEdges(switches, 0) = {}) =>
               /\ is_some(node_mapping)
               /\ DOMAIN unwrap(node_mapping) = Nodes
               /\ \A x \in Nodes, y \in Nodes :
                    unwrap(node_mapping)[x] = unwrap(node_mapping)[y] => x = y
               /\ \E x \in Nodes : unwrap(node_mapping)[x] = 0

\* C13: find, and union with either argument, called with an identifier
\* that was not passed to new panics; the identifier is never added to parent
\* or rank and the partition of the registered nodes does not change.
C13_UnregisteredFailsLoudly ==
    /\ LET f == find(parent, Unregistered)
       IN f.panic /\ f.parent = parent
    /\ \A a \in Ids :
         LET u1 == union(parent, rank, Unregistered, a)
             u2 == union(parent, rank, a, Unregistered)
         IN /\ u1.panic /\ u2.panic
            /\ DOMAIN u1.parent = Nodes /\ DOMAIN u2.parent = Nodes
            /\ u1.rank = rank /\ u2.rank = rank
            /\ Partition(u1.parent) = Partition(parent)
            /\ Partition(u2.parent) = Partition(parent)
    /\ (last.op \in {"find", "union"}) =>
         /\ last.panic <=>
              IF last.op = "find" THEN last.node = Unregistered
              ELSE Unregistered \in {last.node1, last.node2}
         /\ DOMAIN parent = Nodes
         /\ DOMAIN rank = Nodes

\* a union of a registered node of a merged class with the unknown identifier
C13_Witness ==
    /\ last.op = "union"
    /\ last.panic
    /\ last.node1 \in Nodes
    /\ last.node2 = Unregistered
    /\ \E c \in Partition(parent) : last.node1 \in c /\ Cardinality(c) >= 2

\* the 0/1 aggregation matrix of the contract: row i (the i-th node) has its
\* single entry, 1, in column mapping[node], and no column is empty
IsAggregationMatrix(mat, nodes, mapping) ==
    /\ mat.nrows = Len(nodes)
    /\ mat.ncols = Cardinality({mapping[n] : n \in DOMAIN mapping})
    /\ \A i \in 1..Len(nodes) :
         {k \in 1..Len(mat.entries) : mat.entries[k][1] = i - 1 /\ mat.entries[k][3] # 0}
             = {k \in 1..Len(mat.entries) : mat.entries[k] = <<i - 1, mapping[nodes[i]], 1>>}
         /\ Cardinality({k \in 1..Len(mat.entries) : mat.entries[k][1] = i - 1}) = 1
    /\ \A j \in 0..(mat.ncols - 1) :
         \E k \in 1..Len(mat.entries) : mat.entries[k][2] = j /\ mat.entries[k][3] # 0

\* C14: build_aggregation_matrix returns a 0/1 matrix, one row per original
\* node and one column per merged node, every row with exactly one nonzero
\* entry at column mapping[node] and every column with at least one.
C14_AggregationMatrix ==
    last.op = "build_aggregation_matrix" =>
        /\ ~last.panic
        /\ is_some(last.ret)
        /\ IsAggregationMatrix(unwrap(last.ret), last.nodes, last.mapping)

\* C15: parent and rank keep exactly the initial node set as keys, every
\* parent value is a registered node, no rank entry ever decreases; rank
\* changes only in a union of two distinct roots of equal rank, by exactly 1
\* on the first argument's root, which stays a root; a lower-rank root goes
\* under the higher-rank root with no rank change.
C15_RankDiscipline ==
    /\ DOMAIN parent = Nodes
    /\ DOMAIN rank = Nodes
    /\ \A n \in Nodes : parent[n] \in Nodes
    /\ \A a \in Nodes, b \in Nodes :
         LET u == union(parent, rank, a, b)
             r1 == find_root(parent, a)
             r2 == find_root(parent, b)
         IN /\ \A n \in Nodes : u.rank[n] >= rank[n]
            /\ (u.rank # rank) <=> (r1 # r2 /\ rank[r1] = rank[r2])
            /\ (r1 # r2 /\ rank[r1] = rank[r2]) =>
                  /\ u.rank = [rank EXCEPT ![r1] = rank[r1] + 1]
                  /\ u.parent[r1] = r1
                  /\ u.parent[r2] = r1
            /\ (r1 # r2 /\ rank[r1] < rank[r2]) => (u.parent[r1] = r2 /\ u.parent[r2] = r2)
            /\ (r1 # r2 /\ rank[r1] > rank[r2]) => (u.parent[r2] = r1 /\ u.parent[r1] = r1)
    /\ \A x \in Nodes : DOMAIN find(parent, x).parent = Nodes

\* after a merging union: a root of rank 1 next to a root of rank 0, and a
\* rank tie between two other roots is possible too
C15_Witness ==
    /\ last.op = "union"
    /\ last.merged
    /\ \E n \in Nodes, m \in Nodes :
         /\ parent[n] = n /\ parent[m] = m
         /\ rank[n] = 1 /\ rank[m] = 0
    /\ \E n \in Nodes, m \in Nodes :
         n # m /\ parent[n] = n /\ parent[m] = m /\ rank[n] = rank[m]

\* ---- a merger large enough for trees of height 3 -----------------------------
DeepNodes == 1..NumDeep

\* the unions that build a binomial tree over 1..8, each in both directions
DeepPairs ==
    LET up == {<<1, 2>>, <<3, 4>>, <<5, 6>>, <<7, 8>>, <<1, 3>>, <<5, 7>>, <<1, 5>>}
    IN up \cup {<<e[2], e[1]>> : e \in up}

InitDeep ==
    /\ parent = new(DeepNodes).parent
    /\ rank = new(DeepNodes).rank
    /\ parent2 = new(Nodes).parent
    /\ rank2 = new(Nodes).rank
    /\ pairs = {}
    /\ last = NoOp
    /\ found = {}
    /\ InitECSIdle

UnionStep(a, b) ==
    LET u == union(parent, rank, a, b)
    IN /\ parent' = u.parent
       /\ rank' = u.rank
       /\ last' = [op |-> "union", merged |-> u.merged, panic |-> u.panic]
       /\ UNCHANGED <<pairs, parent2, rank2, found>>
       /\ UNCHANGED ecsVars

\* compressed counts the parent entries the second loop of find rewrote
FindStep(x) ==
    LET f == find(parent, x)
    IN /\ parent' = f.parent
       /\ last' = [op |-> "find", panic |-> f.panic,
                   compressed |-> Cardinality({n \in DOMAIN parent : f.parent[n] # parent[n]})]
       /\ UNCHANGED <<rank, pairs, parent2, rank2, found>>
       /\ UNCHANGED ecsVars

NextDeep ==
    \/ \E e \in DeepPairs : UnionStep(e[1], e[2])
    \/ \E x \in DeepNodes : FindStep(x)

SpecDeep == InitDeep /\ [][NextDeep]_vars

\* ---- the 1..NumNodes merger under every union and find, calls not recorded ----
NextCore ==
    \/ \E a \in Nodes, b \in Nodes : UnionStep(a, b)
    \/ \E x \in Nodes : FindStep(x)

SpecCore == Init /\ [][NextCore]_vars

\* the nodes on the parent chain from x up to its root, both included
RECURSIVE PathTo(_, _)
PathTo(p, x) == IF p[x] = x THEN {x} ELSE {x} \cup PathTo(p, p[x])

\* C16: find(node) returns the root of node's class; afterwards every node
\* of the former path from node to the root has the root as direct parent;
\* no parent entry off that path changes and every node keeps its root, hence
\* its class (find writes parent only, never rank).
C16_FindCompression ==
    \A x \in DOMAIN parent :
        LET f == find(parent, x)
            path == PathTo(parent, x)
        IN /\ ~f.panic
           /\ f.root \in path
           /\ parent[f.root] = f.root
           /\ \A n \in path : f.parent[n] = f.root
           /\ \A n \in DOMAIN parent \ path : f.parent[n] = parent[n]
           /\ \A n \in DOMAIN parent : find_root(f.parent, n) = find_root(parent, n)

\* a find that rewrote the parent of two nodes of its path
C16_Witness ==
    /\ last.op = "find"
    /\ last.compressed >= 2

\* the node reached from n after k steps along parent
RECURSIVE ParentIter(_, _, _)
ParentIter(p, n, k) == IF k = 0 THEN n ELSE ParentIter(p, p[n], k - 1)

\* C17: the parent relation has no cycle except the self-loops of the roots:
\* from every registered node the parent chain reaches a self-parented root
\* within fewer steps than there are nodes, and on the way a node whose
\* parent is that root, so both loops of find come to an end.
C17_ParentAcyclic ==
    \A n \in DOMAIN parent :
        \E k \in 0..(Cardinality(DOMAIN parent) - 1) :
            LET root == ParentIter(parent, n, k)
            IN /\ parent[root] = root
               /\ \A j \in 0..(k - 1) : parent[ParentIter(parent, n, j)] # ParentIter(parent, n, j)
               /\ \E j \in 0..k : parent[ParentIter(parent, n, j)] = root

\* after a union or find, a node two steps away from its root
C17_Witness ==
    /\ last.op \in {"union", "find"}
    /\ ~last.panic
    /\ \E n \in Nodes : parent[parent[n]] # parent[n]

\* C18: for every root r, no parent chain from a node of r's class to r is
\* longer than rank[r], and r's class has at least 2^rank[r] nodes.
C18_RankBoundsHeight ==
    \A r \in DOMAIN parent :
        parent[r] = r =>
            LET class == {n \in DOMAIN parent : find_root(parent, n) = r}
            IN /\ \A n \in class : Cardinality(PathTo(parent, n)) - 1 <= rank[r]
               /\ Cardinality(class) >= 2 ^ rank[r]

\* after a union, a root of rank 3 with a node three steps below it
C18_Witness ==
    /\ last.op = "union"
    /\ \E r \in DOMAIN parent, n \in DOMAIN parent :
         /\ parent[r] = r
         /\ rank[r] = 3
         /\ find_root(parent, n) = r
         /\ Cardinality(PathTo(parent, n)) - 1 = 3

\* C19: the map returned by get_node_mapping has exactly the registered
\* nodes as keys, and two nodes with the same new identifier are in the same
\* equivalence class, for every starting_idx.
C19_MappingNeverMerges ==
    last.op = "get_node_mapping" =>
        /\ DOMAIN last.ret = Nodes
        /\ \A x \in Nodes, y \in Nodes :
             last.ret[x] = last.ret[y] => SameClass(parent, x, y)

\* a mapping taken from a nonzero offset over two classes, one of them merged
C19_Witness ==
    /\ last.op = "get_node_mapping"
    /\ last.starting_idx > 0
    /\ Cardinality(Partition(parent)) >= 2
    /\ \E x \in Nodes, y \in Nodes : x # y /\ last.ret[x] = last.ret[y]

\* ---- unions, then find on every node, then the mapping ------------------------
UnionFlush(a, b) ==
    LET u == union(parent, rank, a, b)
    IN /\ parent' = u.parent
       /\ rank' = u.rank
       /\ found' = {}
       /\ last' = NoOp
       /\ UNCHANGED <<pairs, parent2, rank2>>
       /\ UNCHANGED ecsVars

FindFlush(x) ==
    LET f == find(parent, x)
    IN /\ parent' = f.parent
       /\ found' = found \cup {x}
       /\ last' = NoOp
       /\ UNCHANGED <<rank, pairs, parent2, rank2>>
       /\ UNCHANGED ecsVars

GetNodeMappingFlush(k) ==
    /\ last' = [op |-> "get_node_mapping", starting_idx |-> k,
                ret |-> get_node_mapping(parent, k), panic |-> FALSE]
    /\ UNCHANGED <<parent, rank, pairs, parent2, rank2, found>>
    /\ UNCHANGED ecsVars

NextFlush ==
    \/ \E a \in Nodes, b \in Nodes : UnionFlush(a, b)
    \/ \E x \in Nodes : FindFlush(x)
    \/ \E k \in StartIdxs : GetNodeMappingFlush(k)

SpecFlush == Init /\ [][NextFlush]_vars

\* the smallest node of x's class
MinOfClass(p, x) ==
    CHOOSE m \in DOMAIN p :
        /\ SameClass(p, m, x)
        /\ \A y \in DOMAIN p : SameClass(p, y, x) => m <= y

\* C20: once find has been called on every registered node after the last
\* union, every parent entry is the node's root, and get_node_mapping(k) gives
\* one identifier per class: same identifier iff same class, as many
\* identifiers as classes, numbered from k in ascending order of the
\* smallest node of each class.
C20_MappingAfterFlush ==
    found = Nodes =>
        /\ \A n \in Nodes : parent[n] = find_root(parent, n)
        /\ last.op = "get_node_mapping" =>
             LET m == last.ret
                 k == last.starting_idx
             IN /\ \A x \in Nodes, y \in Nodes : (m[x] = m[y]) <=> SameClass(parent, x, y)
                /\ {m[n] : n \in Nodes} = k .. (k + Cardinality(Partition(parent)) - 1)
                /\ \A x \in Nodes, y \in Nodes :
                     MinOfClass(parent, x) < MinOfClass(parent, y) => m[x] < m[y]

\* a mapping from a nonzero offset, taken after the finds, over a class of
\* three nodes whose smallest node is not node 1
C20_Witness ==
    /\ found = Nodes
    /\ last.op = "get_node_mapping"
    /\ last.starting_idx > 0
    /\ \E c \in Partition(parent) : Cardinality(c) >= 3 /\ 1 \notin c
====
